---- MODULE Spec2Model ----
(***************************************************************************)
(* Model of src/app/page.tsx: the page component                           *)
(* TwoImageCardsAutoSizeWithHotspot (metadata probes, one-shot layout) and *)
(* the two MovableCard instances (pointer-driven drag with repaints        *)
(* coalesced through requestAnimationFrame).                               *)
(*                                                                         *)
(* Screen coordinates are kept in HALF PIXELS so that the divisions by two *)
(* of the centring code stay exact: the pixel (120,80) is Pt(240,160).     *)
(* Scale factors and hotspot coordinates are exact fractions <<n, d>>.     *)
(***************************************************************************)
EXTENDS Integers, Sequences, FiniteSets, TLC

\* ------------------------------------------------------------------ bounds
MaxDowns == 2        \* pointer-downs on a drag surface in one behaviour

\* --------------------------------------------------------------- constants
\* null of the record-valued page state (sizes, centers, hotspots) and of bgUrl
NULL == [null |-> TRUE]
NoUrl == "null"
\* rafId.current = null: requestAnimationFrame handles are non-zero
NoHandle == 0
Handle == 1
Entities == {"left", "right"}
Pointers == {1, 2}
Images == {"left", "right", "bg"}

Pt(x, y) == [x |-> x, y |-> y]
Px(n) == 2 * n
PxPt(x, y) == Pt(Px(x), Px(y))

HOTSPOT_LEFT_INTRINSIC == [x1 |-> 160, y1 |-> 453, x2 |-> 696, y2 |-> 542]
HOTSPOT_RIGHT_INTRINSIC == [x1 |-> 2069, y1 |-> 9497, x2 |-> 13575, y2 |-> 10520]

margin == 24
gap == 24

\* The environment the page is started in: a viewport and the natural sizes
\* of /image2.png (left) and /image.png (right), all in pixels.
Scenarios ==
  { [vp |-> [w |-> 1000, h |-> 320], left |-> [w |-> 400, h |-> 200],
                                     right |-> [w |-> 376, h |-> 200]] }

\* The environments the layout is computed in: viewports (the 1200x800 of the
\* worked example, one lower than the 300 floor on both axes, one whose
\* 0.45 * vw is a half pixel, one of odd width and height) and natural sizes
\* (0x0 is an image that reports no natural size).
LayoutViewports ==
  { [w |-> 1200, h |-> 800], [w |-> 1000, h |-> 320], [w |-> 200, h |-> 100],
    [w |-> 358, h |-> 400], [w |-> 801, h |-> 601] }

LayoutSizes ==
  { [w |-> 1000, h |-> 500], [w |-> 1000, h |-> 333], [w |-> 400, h |-> 200],
    [w |-> 376, h |-> 200], [w |-> 300, h |-> 400], [w |-> 200, h |-> 700],
    [w |-> 3, h |-> 1], [w |-> 0, h |-> 0] }

LayoutScenarios == [vp : LayoutViewports, left : LayoutSizes, right : LayoutSizes]

\* Client points of the pointer events, in half pixels: where a pointer goes
\* down, and where it moves to.
DownPoints == { PxPt(120, 80) }
Points == { PxPt(120, 80), PxPt(200, 150) }

\* ------------------------------------------------------- exact arithmetic
Max(a, b) == IF a >= b THEN a ELSE b
Min(a, b) == IF a <= b THEN a ELSE b

\* fractions <<n, d>> with d > 0
RLeq(a, b) == a[1] * b[2] <= b[1] * a[2]
RMin(a, b) == IF RLeq(a, b) THEN a ELSE b
\* Math.round of the non-negative fraction k * s
RoundMul(k, s) == (2 * k * s[1] + s[2]) \div (2 * s[2])
RTimes(k, s) == <<k * s[1], s[2]>>

\* ------------------------------------------------------------ layout code
\* img.onload: naturalWidth || 360, naturalHeight || 240
loadMeta(nat) == [w |-> IF nat.w = 0 THEN 360 ELSE nat.w,
                  h |-> IF nat.h = 0 THEN 240 ELSE nat.h]

\* an inset width without its floor of 300
insetW_NoFloor(vp) == vp.w - margin * 2

insetW(vp) == Max(vp.w - margin * 2, 300)
insetH(vp) == Max(vp.h - margin * 2, 300)

\* a scale factor without the cap at 1
fitScale_Upscales(sz, vp) ==
  LET vw == insetW(vp)
      vh == insetH(vp)
  IN  RMin(<<45 * vw, 100 * sz.w>>, <<7 * vh, 10 * sz.h>>)

\* s = min(maxW / w, maxH / h, 1) with maxW = min(0.45 vw, vw), maxH = min(0.7 vh, vh)
fitScale(sz, vp) ==
  LET vw == insetW(vp)
      vh == insetH(vp)
      maxW == RMin(<<45 * vw, 100>>, <<vw, 1>>)
      maxH == RMin(<<7 * vh, 10>>, <<vh, 1>>)
  IN  RMin(RMin(<<maxW[1], maxW[2] * sz.w>>, <<maxH[1], maxH[2] * sz.h>>), <<1, 1>>)

fit(sz, vp) ==
  LET s == fitScale(sz, vp)
  IN  [size |-> [w |-> RoundMul(sz.w, s), h |-> RoundMul(sz.h, s)], scale |-> s]

scaleRect(r, s) ==
  [x |-> RTimes(r.x1, s), y |-> RTimes(r.y1, s),
   w |-> RTimes(r.x2 - r.x1, s), h |-> RTimes(r.y2 - r.y1, s)]

\* a placement that is centred but not clamped to the margin
placement_NoClamp(leftSize, rightSize, vp) ==
  LET totalW == leftSize.w + gap + rightSize.w
      y == vp.h - Max(leftSize.h, rightSize.h)
      startX == vp.w - totalW
  IN  [left |-> Pt(startX, y), right |-> Pt(startX + Px(leftSize.w + gap), y)]

\* side-by-side placement, in half pixels
placement(leftSize, rightSize, vp) ==
  LET totalW == leftSize.w + gap + rightSize.w
      y == Max(Px(margin), vp.h - Max(leftSize.h, rightSize.h))
      startX == Max(Px(margin), vp.w - totalW)
  IN  [left |-> Pt(startX, y), right |-> Pt(startX + Px(leftSize.w + gap), y)]

\* a layout that scales both hotspots by the left image's scale
computedLayout_OneScale(metaLeft, metaRight, vp) ==
  LET l == fit(metaLeft, vp)
      r == fit(metaRight, vp)
  IN  [sizes |-> [left |-> l.size, right |-> r.size],
       hotspots |-> [left |-> scaleRect(HOTSPOT_LEFT_INTRINSIC, l.scale),
                     right |-> scaleRect(HOTSPOT_RIGHT_INTRINSIC, l.scale)],
       centers |-> placement(l.size, r.size, vp)]

computedLayout(metaLeft, metaRight, vp) ==
  LET l == fit(metaLeft, vp)
      r == fit(metaRight, vp)
  IN  [sizes |-> [left |-> l.size, right |-> r.size],
       hotspots |-> [left |-> scaleRect(HOTSPOT_LEFT_INTRINSIC, l.scale),
                     right |-> scaleRect(HOTSPOT_RIGHT_INTRINSIC, r.scale)],
       centers |-> placement(l.size, r.size, vp)]

fallbackRect == [x |-> <<10, 1>>, y |-> <<180, 1>>, w |-> <<340, 1>>, h |-> <<40, 1>>]

fallbackLayout ==
  LET fallback == [w |-> 360, h |-> 240]
  IN  [sizes |-> [left |-> fallback, right |-> fallback],
       hotspots |-> [left |-> fallbackRect, right |-> fallbackRect],
       centers |-> [left |-> PxPt(40, 80), right |-> PxPt(40 + fallback.w + 24, 80)]]

\* ------------------------------------------------------------------- state
VARIABLES
  scenario,      \* environment: viewport and natural image sizes
  probe,         \* outcome of each Image() probe: "pending", "loaded", "failed"
  ready,         \* useState(false)
  bgUrl,         \* useState(null)
  sizes,         \* useState(null)
  centers,       \* useState(null)
  hotspots,      \* useState(null)
  renderGen,     \* renders of the mounted cards: names the handler closures
  pos,           \* pos.current of each card (authoritative position)
  dragging,      \* dragging.current
  dragOffset,    \* dragOffset.current
  rafId,         \* rafId.current
  transform,     \* el.style.transform: the displayed position
  winListeners,  \* the window's listener list, in registration order
  rafCallbacks,  \* callbacks of each card waiting for the next animation frame
  ptrDown,       \* environment: which pointers are pressed
  ptrOn,         \* environment: what each pressed pointer went down on
  nDowns,        \* pointer-downs on a drag surface so far
  gSess,         \* history: the drag session last started on each card
  gHot           \* history: a hotspot press on the card, none on its surface since

pageVars == <<scenario, probe, ready, bgUrl, sizes, centers, hotspots, renderGen>>
cardVars == <<pos, dragging, dragOffset, rafId, transform, winListeners, rafCallbacks>>
envVars == <<ptrDown, ptrOn, nDowns>>
histVars == <<gSess, gHot>>
vars == <<pageVars, cardVars, envVars, histVars>>

Origin == Pt(0, 0)
NoSess == [st |-> "none", owner |-> 0, base |-> Origin, expect |-> Origin]

Init ==
  /\ scenario \in Scenarios
  /\ probe = [i \in Images |-> "pending"]
  /\ ready = FALSE
  /\ bgUrl = NoUrl
  /\ sizes = NULL
  /\ centers = NULL
  /\ hotspots = NULL
  /\ renderGen = 0
  /\ pos = [e \in Entities |-> Origin]
  /\ dragging = [e \in Entities |-> FALSE]
  /\ dragOffset = [e \in Entities |-> Origin]
  /\ rafId = [e \in Entities |-> NoHandle]
  /\ transform = [e \in Entities |-> Origin]
  /\ winListeners = <<>>
  /\ rafCallbacks = [e \in Entities |-> 0]
  /\ ptrDown = [p \in Pointers |-> FALSE]
  /\ ptrOn = [p \in Pointers |-> "none"]
  /\ nDowns = 0
  /\ gSess = [e \in Entities |-> NoSess]
  /\ gHot = [e \in Entities |-> "off"]

\* the page before the probes answer, in any of the layout environments
LayoutInit ==
  /\ scenario \in LayoutScenarios
  /\ probe = [i \in Images |-> "pending"]
  /\ ready = FALSE
  /\ bgUrl = NoUrl
  /\ sizes = NULL
  /\ centers = NULL
  /\ hotspots = NULL
  /\ renderGen = 0
  /\ pos = [e \in Entities |-> Origin]
  /\ dragging = [e \in Entities |-> FALSE]
  /\ dragOffset = [e \in Entities |-> Origin]
  /\ rafId = [e \in Entities |-> NoHandle]
  /\ transform = [e \in Entities |-> Origin]
  /\ winListeners = <<>>
  /\ rafCallbacks = [e \in Entities |-> 0]
  /\ ptrDown = [p \in Pointers |-> FALSE]
  /\ ptrOn = [p \in Pointers |-> "none"]
  /\ nDowns = 0
  /\ gSess = [e \in Entities |-> NoSess]
  /\ gHot = [e \in Entities |-> "off"]

\* ---------------------------------------------------------------- start-up
\* The four setState calls and the first render of the two cards: useRef's
\* initial values and the layout effect that applies the initial transform.
mount(layout) ==
  /\ sizes' = layout.sizes
  /\ hotspots' = layout.hotspots
  /\ centers' = layout.centers
  /\ ready' = TRUE
  /\ pos' = [e \in Entities |-> layout.centers[e]]
  /\ transform' = [e \in Entities |-> layout.centers[e]]
  /\ UNCHANGED <<dragging, dragOffset, rafId, winListeners, rafCallbacks>>

\* an onload that lays the page out again after the catch has run
MetaLoad_RemountsLate(i) ==
  /\ i \in Entities
  /\ probe[i] = "pending"
  /\ probe' = [probe EXCEPT ![i] = "loaded"]
  /\ IF \A j \in Entities \ {i} : probe[j] # "pending"
       THEN mount(computedLayout(loadMeta(scenario.left), loadMeta(scenario.right),
                                 scenario.vp))
       ELSE UNCHANGED <<sizes, hotspots, centers, ready, cardVars>>
  /\ UNCHANGED <<scenario, bgUrl, renderGen, envVars, histVars>>

\* img.onload of a foreground probe. Promise.all resolves with the second
\* load; after a rejection the late outcome of the other probe is ignored.
MetaLoad(i) ==
  /\ i \in Entities
  /\ probe[i] = "pending"
  /\ probe' = [probe EXCEPT ![i] = "loaded"]
  /\ IF \A j \in Entities \ {i} : probe[j] = "loaded"
       THEN mount(computedLayout(loadMeta(scenario.left), loadMeta(scenario.right),
                                 scenario.vp))
       ELSE UNCHANGED <<sizes, hotspots, centers, ready, cardVars>>
  /\ UNCHANGED <<scenario, bgUrl, renderGen, envVars, histVars>>

\* an onerror that waits for the other probe's outcome (Promise.allSettled)
MetaError_AwaitsBoth(i) ==
  /\ i \in Entities
  /\ probe[i] = "pending"
  /\ probe' = [probe EXCEPT ![i] = "failed"]
  /\ IF \A j \in Entities \ {i} : probe[j] # "pending"
       THEN mount(fallbackLayout)
       ELSE UNCHANGED <<sizes, hotspots, centers, ready, cardVars>>
  /\ UNCHANGED <<scenario, bgUrl, renderGen, envVars, histVars>>

\* img.onerror of a foreground probe: the first rejection runs the catch.
MetaError(i) ==
  /\ i \in Entities
  /\ probe[i] = "pending"
  /\ probe' = [probe EXCEPT ![i] = "failed"]
  /\ IF \A j \in Entities \ {i} : probe[j] # "failed"
       THEN mount(fallbackLayout)
       ELSE UNCHANGED <<sizes, hotspots, centers, ready, cardVars>>
  /\ UNCHANGED <<scenario, bgUrl, renderGen, envVars, histVars>>

\* img.onload of the background probe: setBgUrl changes state, so the page
\* renders again; mounted cards get fresh handler closures.
BgLoad ==
  /\ probe["bg"] = "pending"
  /\ probe' = [probe EXCEPT !["bg"] = "loaded"]
  /\ bgUrl' = "/image3.png"
  /\ renderGen' = IF ready THEN renderGen + 1 ELSE renderGen
  /\ UNCHANGED <<scenario, ready, sizes, centers, hotspots, cardVars, envVars, histVars>>

\* img.onerror of the background probe: setBgUrl(null) on null, no render.
BgError ==
  /\ probe["bg"] = "pending"
  /\ probe' = [probe EXCEPT !["bg"] = "failed"]
  /\ UNCHANGED <<scenario, ready, bgUrl, sizes, centers, hotspots, renderGen,
                 cardVars, envVars, histVars>>

\* ------------------------------------------------------- the card's handlers
\* The handlers are functions of the mutable card state m (the refs of both
\* cards, the window's listener list and the animation-frame list).
Cards ==
  [pos |-> pos, dragging |-> dragging, dragOffset |-> dragOffset, rafId |-> rafId,
   transform |-> transform, listeners |-> winListeners, raf |-> rafCallbacks]

SetCards(m) ==
  /\ pos' = m.pos
  /\ dragging' = m.dragging
  /\ dragOffset' = m.dragOffset
  /\ rafId' = m.rafId
  /\ transform' = m.transform
  /\ winListeners' = m.listeners
  /\ rafCallbacks' = m.raf

Listener(type, e, g) == [type |-> type, ent |-> e, gen |-> g]

InSeq(x, q) == \E k \in 1..Len(q) : q[k] = x

\* window.addEventListener: a listener already in the list is not added again
addEventListener(ls, l) == IF InSeq(l, ls) THEN ls ELSE Append(ls, l)

\* window.removeEventListener
removeEventListener(ls, l) == SelectSeq(ls, LAMBDA x : x # l)

\* ref.current.getBoundingClientRect(): the box is at left 0, top 0 and is
\* moved by its transform alone, so left/top are the displayed position
getBoundingClientRect(m, e) == m.transform[e]

\* requestAnimationFrame(callback): one more callback of card e waits for the
\* next frame; the handle returned is non-zero
requestAnimationFrame(raf, e) == [raf EXCEPT ![e] = @ + 1]

\* scheduleRender without its guard on rafId.current
scheduleRender_NoGuard(m, e) ==
  [m EXCEPT !.raf = requestAnimationFrame(@, e), !.rafId[e] = Handle]

scheduleRender(m, e) ==
  IF m.rafId[e] # NoHandle
    THEN m
    ELSE [m EXCEPT !.raf = requestAnimationFrame(@, e), !.rafId[e] = Handle]

\* a callback that paints the initial prop instead of pos.current
renderCallback_PaintsInitial(m, e) ==
  [m EXCEPT !.rafId[e] = NoHandle, !.transform[e] = centers[e]]

\* the callback given to requestAnimationFrame
renderCallback(m, e) ==
  [m EXCEPT !.rafId[e] = NoHandle, !.transform[e] = m.pos[e]]

\* an onPointerMove that does not ask for a repaint
onPointerMove_NoRepaint(m, e, pt) ==
  IF ~m.dragging[e]
    THEN m
    ELSE [m EXCEPT !.pos[e] = Pt(pt.x - m.dragOffset[e].x, pt.y - m.dragOffset[e].y)]

onPointerMove(m, e, pt) ==
  IF ~m.dragging[e]
    THEN m
    ELSE scheduleRender(
           [m EXCEPT !.pos[e] = Pt(pt.x - m.dragOffset[e].x, pt.y - m.dragOffset[e].y)],
           e)

\* a stopDragging that returns at once
stopDragging_Noop(m, e, g) == m

\* a stopDragging that also cancels the pending animation frame
stopDragging_CancelsRepaint(m, e, g) ==
  [m EXCEPT !.dragging[e] = FALSE,
            !.rafId[e] = NoHandle,
            !.raf[e] = 0,
            !.listeners = removeEventListener(
                            removeEventListener(@, Listener("pointermove", e, g)),
                            Listener("pointerup", e, g))]

\* g names the render whose closure this is: it removes that render's listeners
stopDragging(m, e, g) ==
  [m EXCEPT !.dragging[e] = FALSE,
            !.listeners = removeEventListener(
                            removeEventListener(@, Listener("pointermove", e, g)),
                            Listener("pointerup", e, g))]

onPointerDown(m, e, g, pt) ==
  LET rect == getBoundingClientRect(m, e)
  IN  [m EXCEPT !.dragOffset[e] = Pt(pt.x - rect.x, pt.y - rect.y),
                !.dragging[e] = TRUE,
                !.listeners = addEventListener(
                                addEventListener(@, Listener("pointermove", e, g)),
                                Listener("pointerup", e, g))]

\* a hotspot handler that forgets e.stopPropagation()
hotspotLetsPropagate == FALSE

\* the hotspot's own handler: e.stopPropagation()
hotspotStopsPropagation == TRUE

\* React delivers a pointer-down to the handlers from the target up to the
\* card: a pointer-down on the hotspot reaches the card's onPointerDown only
\* if the hotspot's handler let it propagate.
dispatchPointerDown(m, e, g, target, pt) ==
  IF target = "hotspot" /\ hotspotStopsPropagation
    THEN m
    ELSE onPointerDown(m, e, g, pt)

\* one listener of the window is called with the event
callListener(m, l, pt) ==
  IF l.type = "pointermove"
    THEN onPointerMove(m, l.ent, pt)
    ELSE stopDragging(m, l.ent, l.gen)

\* The window dispatches an event to the listeners of its type registered
\* when the dispatch starts, in order, skipping those removed meanwhile.
RECURSIVE dispatchTo(_, _, _)
dispatchTo(m, ls, pt) ==
  IF ls = <<>>
    THEN m
    ELSE dispatchTo(IF InSeq(Head(ls), m.listeners) THEN callListener(m, Head(ls), pt) ELSE m,
                    Tail(ls), pt)

dispatchWindow(m, type, pt) ==
  dispatchTo(m, SelectSeq(m.listeners, LAMBDA l : l.type = type), pt)

\* a frame: every waiting callback runs once, none is left waiting
RECURSIVE runCallbacks(_, _, _)
runCallbacks(m, e, n) ==
  IF n = 0 THEN m ELSE runCallbacks(renderCallback(m, e), e, n - 1)

runFrame(m) ==
  LET none == [m EXCEPT !.raf = [e \in Entities |-> 0]]
  IN  runCallbacks(runCallbacks(none, "left", m.raf["left"]), "right", m.raf["right"])

\* ------------------------------------------------------------------ history
\* What the claims speak of and the program does not keep: the drag session
\* running on a card (st "open": started, "moved": its pointer has moved,
\* "ended": its pointer was released after a move and nothing happened since),
\* with base = P0 - A and expect = P0 + (B - A). Only a session that starts on
\* an idle card with no other pointer pressed is followed, and one that
\* another pointer's event or a cancel falls into is forgotten: what is left
\* is pointer-down, moves, pointer-up and frames.
Opened(p, e, pt) ==
  IF dragging[e] \/ \E q \in Pointers : ptrDown[q]
    THEN NoSess
    ELSE [st |-> "open", owner |-> p, base |-> Pt(pos[e].x - pt.x, pos[e].y - pt.y),
          expect |-> Origin]

Moved(s, p, pt) ==
  IF s.st \in {"open", "moved"} /\ s.owner = p /\ ptrDown[p]
    THEN [s EXCEPT !.st = "moved", !.expect = Pt(s.base.x + pt.x, s.base.y + pt.y)]
    ELSE NoSess

Released(s, p) ==
  IF s.st = "moved" /\ s.owner = p
    THEN [NoSess EXCEPT !.st = "ended", !.expect = s.expect]
    ELSE NoSess

\* "idle" / "busy": the card was not / was dragging at the hotspot press
Pressed(e) == IF dragging[e] THEN "busy" ELSE "idle"

\* ------------------------------------------------------------ pointer events
\* pointerdown of pointer p at pt whose target is card e's drag surface or
\* its hotspot link. Pointer ids are labels the page never reads: a pointer
\* that goes down takes the lowest id not in use.
PointerDown(p, e, target, pt) ==
  /\ ready
  /\ ~ptrDown[p]
  /\ \A q \in Pointers : q < p => ptrDown[q]
  /\ nDowns < MaxDowns
  /\ SetCards(dispatchPointerDown(Cards, e, renderGen, target, pt))
  /\ ptrDown' = [ptrDown EXCEPT ![p] = TRUE]
  /\ ptrOn' = [ptrOn EXCEPT ![p] = IF target = "surface" THEN e ELSE "hotspot"]
  /\ nDowns' = nDowns + 1
  /\ gSess' = [x \in Entities |->
                 IF x = e /\ target = "surface" THEN Opened(p, e, pt) ELSE NoSess]
  /\ gHot' = [gHot EXCEPT ![e] = IF target = "hotspot" THEN Pressed(e) ELSE "off"]
  /\ UNCHANGED pageVars

\* pointermove of pointer p (pressed or hovering) at pt, arriving at the window
PointerMove(p, pt) ==
  /\ ready
  /\ SetCards(dispatchWindow(Cards, "pointermove", pt))
  /\ gSess' = [x \in Entities |-> Moved(gSess[x], p, pt)]
  /\ UNCHANGED <<pageVars, envVars, gHot>>

\* pointerup of pointer p, arriving at the window
PointerUp(p) ==
  /\ ptrDown[p]
  /\ SetCards(dispatchWindow(Cards, "pointerup", Origin))
  /\ ptrDown' = [ptrDown EXCEPT ![p] = FALSE]
  /\ ptrOn' = [ptrOn EXCEPT ![p] = "none"]
  /\ gSess' = [x \in Entities |-> Released(gSess[x], p)]
  /\ UNCHANGED <<pageVars, nDowns, gHot>>

\* pointercancel of pointer p (capture lost without a pointerup): the page
\* registers no handler for it
PointerCancel(p) ==
  /\ ptrDown[p]
  /\ ptrDown' = [ptrDown EXCEPT ![p] = FALSE]
  /\ ptrOn' = [ptrOn EXCEPT ![p] = "none"]
  /\ gSess' = [x \in Entities |-> NoSess]
  /\ UNCHANGED <<pageVars, cardVars, nDowns, gHot>>

\* a display refresh with at least one callback to run
Frame ==
  /\ \E e \in Entities : rafCallbacks[e] > 0
  /\ SetCards(runFrame(Cards))
  /\ UNCHANGED <<pageVars, envVars, histVars>>

Next ==
  \/ \E i \in Entities : MetaLoad(i)
  \/ \E i \in Entities : MetaError(i)
  \/ BgLoad
  \/ BgError
  \/ \E p \in Pointers, e \in Entities, t \in {"surface", "hotspot"}, pt \in DownPoints :
       PointerDown(p, e, t, pt)
  \/ \E p \in Pointers, pt \in Points : PointerMove(p, pt)
  \/ \E p \in Pointers : PointerUp(p)
  \/ \E p \in Pointers : PointerCancel(p)
  \/ Frame

Spec == Init /\ [][Next]_vars

\* the browser runs the animation-frame callbacks at the next refresh
LiveSpec == Spec /\ WF_vars(Frame)

\* Start-up alone, over all the layout environments: the probes answer in any
\* order, no pointer event arrives.
LayoutNext ==
  \/ \E i \in Entities : MetaLoad(i)
  \/ \E i \in Entities : MetaError(i)
  \/ BgLoad
  \/ BgError

LayoutSpec == LayoutInit /\ [][LayoutNext]_vars

\* ------------------------------------------------------------------- claims
ListenersOf(e) == { k \in 1..Len(winListeners) : winListeners[k].ent = e }

PtMinus(a, b) == Pt(a.x - b.x, a.y - b.y)

\* C1: a drag session that starts with pointer-down at A on a card at P0, gets
\* moves the last of which is at B and ends with pointer-up leaves the card at
\* P0 + (B - A), whatever repaint ticks ran in between.
C1_DragEndsAtP0PlusDelta ==
  \A e \in Entities : gSess[e].st = "ended" => pos[e] = gSess[e].expect

C3_NoInterference ==
  [][\A p \in Pointers, e \in Entities :
       ( /\ ptrDown[p]
         /\ ptrOn[p] \in Entities \ {e}
         /\ \/ PointerUp(p)
            \/ \E pt \in Points : PointerMove(p, pt) )
       => UNCHANGED <<pos[e], dragOffset[e], dragging[e], rafId[e]>>]_vars

\* C4: a card never has more than one repaint callback waiting, and one waits
\* exactly when its rafId is set.
C4_OnePendingRepaint ==
  \A e \in Entities :
    /\ rafCallbacks[e] <= 1
    /\ (rafCallbacks[e] = 1) <=> (rafId[e] # NoHandle)

\* a repaint is waiting while the card's session goes on moving
C4_Witness ==
  \E e \in Entities :
    /\ rafCallbacks[e] = 1
    /\ gSess[e].st = "moved"
    /\ transform[e] # pos[e]

\* C5: a frame clears every pending flag, and a card whose pending flag is
\* cleared is displayed at the position it has at that moment.
C5_FramePaintsCurrent ==
  [][/\ Frame => \A e \in Entities : rafId'[e] = NoHandle /\ rafCallbacks'[e] = 0
     /\ \A e \in Entities :
          (rafId[e] # NoHandle /\ rafId'[e] = NoHandle)
            => (transform'[e] = pos[e] /\ pos'[e] = pos[e])]_vars

\* a card repainted at a position it was dragged to
C5_Witness ==
  \E e \in Entities :
    /\ ready
    /\ rafId[e] = NoHandle
    /\ transform[e] = pos[e]
    /\ pos[e] # centers[e]

\* C6: a card has listeners on the window only while it is dragging, and it
\* is dragging only while a pointer that went down on it is still down.
C6_ListenersOnlyInSession ==
  \A e \in Entities :
    /\ ~dragging[e] => ListenersOf(e) = {}
    /\ dragging[e] => \E p \in Pointers : ptrDown[p] /\ ptrOn[p] = e

\* C7: a pointer-down on the surface of a card that is already dragging
\* changes neither its offset, its dragging flag, its position nor the
\* registered listeners.
C7_SecondDownIgnored ==
  [][\A p \in Pointers, e \in Entities, pt \in DownPoints :
       (dragging[e] /\ PointerDown(p, e, "surface", pt))
         => /\ UNCHANGED <<dragOffset[e], dragging[e], pos[e]>>
            /\ winListeners' = winListeners]_vars

\* C8: a pointer-down on a card's surface records the pointer position minus
\* the card's authoritative position, and a move to M while dragging sets the
\* position to M minus the recorded offset.
C8_OffsetFromPosition ==
  [][/\ \A p \in Pointers, e \in Entities, pt \in DownPoints :
          PointerDown(p, e, "surface", pt) => dragOffset'[e] = PtMinus(pt, pos[e])
     /\ \A p \in Pointers, e \in Entities, pt \in Points :
          (dragging[e] /\ PointerMove(p, pt)) => pos'[e] = PtMinus(pt, dragOffset[e])]_vars

\* C9: a pointer-up leaves no card dragging, the position of a mounted card that
\* is not dragging does not change, and a card starts dragging only by a
\* pointer-down on its surface.
C9_NoMoveAfterUp ==
  [][\A e \in Entities :
       /\ (\E p \in Pointers : PointerUp(p)) => ~dragging'[e]
       /\ (ready /\ ~dragging[e]) => pos'[e] = pos[e]
       /\ (~dragging[e] /\ dragging'[e])
            => \E p \in Pointers, pt \in DownPoints : PointerDown(p, e, "surface", pt)]_vars

\* a card dragged and released, idle while the other card is dragged on
C9_Witness ==
  \E e \in Entities, f \in Entities :
    /\ e # f
    /\ ready
    /\ ~dragging[e]
    /\ pos[e] # centers[e]
    /\ dragging[f]
    /\ pos[f] # centers[f]

\* C10: under fairness of the frame, whenever a card that is not being dragged
\* is displayed elsewhere than at its position (its repaint was pending when
\* the pointer-up came), a state follows in which every card is displayed at
\* its position.
C10_PendingRepaintApplied ==
  (\E e \in Entities : ready /\ ~dragging[e] /\ transform[e] # pos[e])
    ~> (\A e \in Entities : transform[e] = pos[e])

\* a repaint still pending after the pointer-up that ended a drag
C10_Witness ==
  \E e \in Entities :
    /\ gSess[e].st = "ended"
    /\ ~dragging[e]
    /\ rafId[e] # NoHandle
    /\ transform[e] # pos[e]

\* ------------------------------------------------- claims about the layout
\* the layout effect ran to its end: both foreground probes loaded
Computed == ready /\ \A i \in Entities : probe[i] = "loaded"

\* the image of card e reports a natural size
HasNatural(e) == scenario[e].w >= 1 /\ scenario[e].h >= 1

Abs(n) == IF n >= 0 THEN n ELSE -n

RECURSIVE GCD(_, _)
GCD(a, b) == IF b = 0 THEN a ELSE GCD(b, a % b)

\* a fraction in lowest terms
RNorm(a) == LET g == GCD(a[1], a[2]) IN <<a[1] \div g, a[2] \div g>>

\* With vw = max(W - 48, 300) and vh = max(H - 48, 300), the scale factor
\* s = min(0.45 vw / w, 0.7 vh / h, 1) of card e's image is ScaleNum(e) / (100 w h).
ScaleNum(e) ==
  LET w == scenario[e].w
      h == scenario[e].h
      vw == IF scenario.vp.w - 48 >= 300 THEN scenario.vp.w - 48 ELSE 300
      vh == IF scenario.vp.h - 48 >= 300 THEN scenario.vp.h - 48 ELSE 300
      a == 45 * vw * h
      b == 70 * vh * w
      c == 100 * w * h
  IN  IF a <= b /\ a <= c THEN a ELSE IF b <= c THEN b ELSE c

ScaleOf(e) == RNorm(<<ScaleNum(e), 100 * scenario[e].w * scenario[e].h>>)

\* C11: once the probe of a foreground image has failed, whatever the other
\* probe does, the page is ready and the layout is the fixed fallback for both
\* cards: sizes 360x240, hotspot (10,180,340,40), positions (40,80), (424,80).
C11_FallbackNeverMixed ==
  (\E i \in Entities : probe[i] = "failed") =>
    /\ ready
    /\ sizes = [left |-> [w |-> 360, h |-> 240], right |-> [w |-> 360, h |-> 240]]
    /\ \A e \in Entities :
         hotspots[e] = [x |-> <<10, 1>>, y |-> <<180, 1>>, w |-> <<340, 1>>, h |-> <<40, 1>>]
    /\ centers = [left |-> PxPt(40, 80), right |-> PxPt(424, 80)]

\* one probe failed and the other loaded, and a card of the fallback layout
\* is being dragged away from its fallback position
C11_Witness ==
  /\ \E i \in Entities : probe[i] = "failed"
  /\ \E i \in Entities : probe[i] = "loaded"
  /\ \E e \in Entities : dragging[e] /\ pos[e] # PxPt(40, 80) /\ pos[e] # PxPt(424, 80)

\* C12: the page is ready, with sizes, positions and hotspots set, exactly
\* from the moment the two foreground probes have decided the layout (one
\* failed, or both loaded), whatever the background probe did; once ready it
\* stays ready with the same layout, and a probe outcome that arrives after
\* that changes nothing of the cards.
C12_ReadyOnce ==
  /\ [](ready <=> ( \/ \E i \in Entities : probe[i] = "failed"
                    \/ \A i \in Entities : probe[i] = "loaded" ))
  /\ [](ready => (sizes # NULL /\ centers # NULL /\ hotspots # NULL))
  /\ [][ready => ( /\ ready'
                   /\ UNCHANGED <<sizes, centers, hotspots>>
                   /\ ( \/ \E i \in Entities : MetaLoad(i) \/ MetaError(i)
                        \/ BgLoad
                        \/ BgError ) => UNCHANGED cardVars )]_vars

\* every probe has answered, one foreground probe failed and the other
\* loaded, the background loaded, and a card dragged meanwhile kept its place
C12_Witness ==
  /\ ready
  /\ \A i \in Images : probe[i] # "pending"
  /\ \E i \in Entities : probe[i] = "failed"
  /\ \E i \in Entities : probe[i] = "loaded"
  /\ bgUrl # NoUrl
  /\ \E e \in Entities : ~dragging[e] /\ pos[e] # centers[e]

\* C13 as stated: the fitted size is no larger than the natural size and has
\* exactly its proportions, fittedW / w = fittedH / h.
C13_UniformExact ==
  \A e \in Entities :
    (Computed /\ HasNatural(e)) =>
      /\ sizes[e].w <= scenario[e].w
      /\ sizes[e].h <= scenario[e].h
      /\ sizes[e].w * scenario[e].h = sizes[e].h * scenario[e].w

\* C13 as amended: the fitted size is no larger than the natural size and has
\* its proportions up to the rounding of each side to a whole pixel,
\* |fittedW / w - fittedH / h| <= 1/(2w) + 1/(2h).
C13_UniformUpToRounding ==
  \A e \in Entities :
    (Computed /\ HasNatural(e)) =>
      /\ sizes[e].w <= scenario[e].w
      /\ sizes[e].h <= scenario[e].h
      /\ 2 * Abs(sizes[e].w * scenario[e].h - sizes[e].h * scenario[e].w)
           <= scenario[e].w + scenario[e].h

\* an image scaled down whose rounded sides no longer have its proportions
C13_Witness ==
  \E e \in Entities :
    /\ Computed
    /\ HasNatural(e)
    /\ sizes[e].w < scenario[e].w
    /\ sizes[e].w * scenario[e].h # sizes[e].h * scenario[e].w

\* C14: the fitted width is w * s and the fitted height h * s, each rounded
\* to the nearest whole pixel (halves up), for s = min(0.45 vw / w,
\* 0.7 vh / h, 1) with vw = max(W - 48, 300), vh = max(H - 48, 300); a
\* 1000x500 image in a 1200x800 viewport is fitted to 518x259.
C14_FittedSize ==
  \A e \in Entities :
    (Computed /\ HasNatural(e)) =>
      LET w == scenario[e].w
          h == scenario[e].h
          n == ScaleNum(e)
      IN  /\ (2 * sizes[e].w - 1) * 100 * h <= 2 * n
          /\ 2 * n < (2 * sizes[e].w + 1) * 100 * h
          /\ (2 * sizes[e].h - 1) * 100 * w <= 2 * n
          /\ 2 * n < (2 * sizes[e].h + 1) * 100 * w
          /\ (scenario.vp = [w |-> 1200, h |-> 800] /\ scenario[e] = [w |-> 1000, h |-> 500])
               => sizes[e] = [w |-> 518, h |-> 259]

\* the worked example, next to an image that the same viewport scales by its height
C14_Witness ==
  /\ Computed
  /\ scenario.vp = [w |-> 1200, h |-> 800]
  /\ scenario.left = [w |-> 1000, h |-> 500]
  /\ sizes.left = [w |-> 518, h |-> 259]
  /\ scenario.right = [w |-> 200, h |-> 700]
  /\ sizes.right = [w |-> 150, h |-> 526]

\* C15 as stated: the right card is leftW + 24 right of the left card, the
\* pair starts no further left or up than the margin, a pair that fits
\* between the margins has as much room on its left as on its right, and
\* each card of a pair that fits has as much room above it as below it.
C15_CentredEach ==
  Computed =>
    LET l == centers.left
        r == centers.right
    IN  /\ r.x = l.x + Px(sizes.left.w + 24)
        /\ l.x >= Px(24) /\ l.y >= Px(24) /\ r.y >= Px(24)
        /\ (sizes.left.w + 24 + sizes.right.w <= scenario.vp.w - 48)
             => l.x = Px(scenario.vp.w) - (r.x + Px(sizes.right.w))
        /\ (sizes.left.h <= scenario.vp.h - 48 /\ sizes.right.h <= scenario.vp.h - 48)
             => \A e \in Entities :
                  centers[e].y = Px(scenario.vp.h) - (centers[e].y + Px(sizes[e].h))

\* C15 as amended: the same, but vertically it is the pair that is centred:
\* both cards have the same top, and the room above it equals the room below
\* the taller card.
C15_CentredPair ==
  Computed =>
    LET l == centers.left
        r == centers.right
        tall == IF sizes.left.h >= sizes.right.h THEN sizes.left.h ELSE sizes.right.h
    IN  /\ r.x = l.x + Px(sizes.left.w + 24)
        /\ l.x >= Px(24) /\ l.y >= Px(24) /\ r.y >= Px(24)
        /\ (sizes.left.w + 24 + sizes.right.w <= scenario.vp.w - 48)
             => l.x = Px(scenario.vp.w) - (r.x + Px(sizes.right.w))
        /\ l.y = r.y
        /\ (tall <= scenario.vp.h - 48) => l.y = Px(scenario.vp.h) - (l.y + Px(tall))

\* a pair of cards of different heights that fits between the margins
C15_Witness ==
  /\ Computed
  /\ sizes.left.h # sizes.right.h
  /\ sizes.left.w + 24 + sizes.right.w <= scenario.vp.w - 48
  /\ sizes.left.h <= scenario.vp.h - 48
  /\ sizes.right.h <= scenario.vp.h - 48
  /\ centers.left.x > Px(24)
  /\ centers.left.y > Px(24)

\* the fixed rectangle of card e's hotspot, in the pixels of its image
IntrinsicOf(e) == IF e = "left" THEN HOTSPOT_LEFT_INTRINSIC ELSE HOTSPOT_RIGHT_INTRINSIC

\* C16: the hotspot of a card is its own fixed rectangle times the scale
\* factor s of its own image: origin (x1 s, y1 s), size ((x2 - x1) s,
\* (y2 - y1) s), so that its area is the fixed rectangle's area times s * s.
C16_HotspotOwnScale ==
  \A e \in Entities :
    (Computed /\ HasNatural(e)) =>
      LET r == IntrinsicOf(e)
          s == ScaleOf(e)
          k == hotspots[e]
          rw == RNorm(<<k.w[1], k.w[2] * (r.x2 - r.x1)>>)
          rh == RNorm(<<k.h[1], k.h[2] * (r.y2 - r.y1)>>)
      IN  /\ RNorm(k.x) = RNorm(<<r.x1 * s[1], s[2]>>)
          /\ RNorm(k.y) = RNorm(<<r.y1 * s[1], s[2]>>)
          /\ RNorm(k.w) = RNorm(<<(r.x2 - r.x1) * s[1], s[2]>>)
          /\ RNorm(k.h) = RNorm(<<(r.y2 - r.y1) * s[1], s[2]>>)
          /\ RNorm(<<rw[1] * rh[1], rw[2] * rh[2]>>) = RNorm(<<s[1] * s[1], s[2] * s[2]>>)

\* two images scaled down by different factors
C16_Witness ==
  /\ Computed
  /\ \A e \in Entities : HasNatural(e) /\ ScaleOf(e) # <<1, 1>>
  /\ ScaleOf("left") # ScaleOf("right")
  /\ RNorm(hotspots.left.x) = RNorm(<<160 * ScaleOf("left")[1], ScaleOf("left")[2]>>)

\* ---------------------------------------------- claims about the drag, again
ListenersOfType(e, type) ==
  { k \in 1..Len(winListeners) : winListeners[k].ent = e /\ winListeners[k].type = type }

\* C17: once the page is ready, the position of a card changes only in a
\* pointer-move; a pointer-move leaves it unchanged if the card is not
\* dragging or if the moving pointer is one that went down on the other card;
\* no step changes a card's size or hotspot.
C17_OnlyOwnMoves ==
  [][\A e \in Entities :
       ready =>
         /\ pos'[e] # pos[e] => \E p \in Pointers, pt \in Points : PointerMove(p, pt)
         /\ \A p \in Pointers, pt \in Points :
              ( /\ PointerMove(p, pt)
                /\ ~dragging[e] \/ (ptrDown[p] /\ ptrOn[p] \in Entities \ {e}) )
                => pos'[e] = pos[e]
         /\ UNCHANGED <<sizes[e], hotspots[e]>>]_vars

\* C18: a mounted card with no repaint pending (rafId null) is displayed at
\* its authoritative position.
C18_DisplayedUnlessPending ==
  ready => \A e \in Entities : rafId[e] = NoHandle => transform[e] = pos[e]

\* a card in the middle of a drag, moved and already repainted
C18_Witness ==
  \E e \in Entities :
    /\ ready
    /\ dragging[e]
    /\ rafId[e] = NoHandle
    /\ pos[e] # centers[e]
    /\ rafCallbacks[e] = 0

\* C19: a card is dragging exactly when a pointermove listener and a
\* pointerup listener of it are on the window, and the window never holds
\* more than one of each for a card.
C19_OneListenerPair ==
  \A e \in Entities :
    /\ dragging[e] <=> ( /\ ListenersOfType(e, "pointermove") # {}
                         /\ ListenersOfType(e, "pointerup") # {} )
    /\ Cardinality(ListenersOfType(e, "pointermove")) <= 1
    /\ Cardinality(ListenersOfType(e, "pointerup")) <= 1

====
